---- MODULE Spec2Model ----
(***************************************************************************)
(* Model of fastapi_users.authentication: the Authenticator (current_user  *)
(* and _authenticate), backend-name normalisation, and the Cookie backend  *)
(* (CookieAuthentication.__call__).  Python values are records tagged by   *)
(* their type in field "t", so that values of different Python types can   *)
(* be compared.                                                            *)
(***************************************************************************)
EXTENDS Integers, Sequences, FiniteSets, TLC

VARIABLES
    backends,     \* Authenticator.backends: sequence of CookieAuthentication
    user_db,      \* contents of the user directory: id -> user / None
    now,          \* the clock the token codec reads
    dependency,   \* what the last current_user(...) call produced
    pc,           \* position of the request in _authenticate
    kwargs,       \* credentials of the request, by parameter name
    idx,          \* position of the "for backend in self.backends" loop
    user,         \* local variable user of _authenticate
    outcome,      \* how _authenticate ended: return value or exception
    calls,        \* per backend: times backend(...) was invoked this request
    results,      \* per backend: what its last invocation did this request
    gets,         \* per backend: how its user_db.get calls ended this request
    direct,       \* the last call of a backend's __call__ made on its own
    sink,         \* the Response handed to the last login or logout call
    session,      \* the last login: its user, its token, whether logged out
    lanes         \* the requests in flight when several are resolved at once

vars == <<backends, user_db, now, dependency, pc, kwargs, idx, user, outcome,
          calls, results, gets, direct, sink, session, lanes>>

----------------------------------------------------------------------------
(* Bounds *)

NumBackends == 2    \* backends the application configures
MaxTime == 1        \* last reading of the clock
NumRequests == 2    \* requests resolved at the same time

----------------------------------------------------------------------------
(* Python values *)

None == [t |-> "None"]
Str(s) == [t |-> "str", s |-> s]
EmptyStr == Str("")
PyInt(n) == [t |-> "int", v |-> n]

Return(v) == [kind |-> "return", value |-> v]
Raise(e) == [kind |-> "raise", exc |-> e]
NotCalled == [kind |-> "notcalled"]

\* raise HTTPException(status_code=status_code)
HTTPException(status_code) ==
    [kind |-> "raise", exc |-> "HTTPException", status_code |-> status_code]

\* "is not None" in place of the truth test: the empty string passes
TruthyNotNone(x) == x # None

\* bool(x) for the values tested by "if token:" and "if user:"
Truthy(x) == x # None /\ x # EmptyStr

HTTP_401_UNAUTHORIZED == 401
HTTP_403_FORBIDDEN == 403

----------------------------------------------------------------------------
(* Backend names: a str is a sequence of one-character strings *)

Digits == {"0", "1", "2", "3", "4", "5", "6", "7", "8", "9"}

Letters ==
    {"a", "b", "c", "d", "e", "f", "g", "h", "i", "j", "k", "l", "m",
     "n", "o", "p", "q", "r", "s", "t", "u", "v", "w", "x", "y", "z",
     "A", "B", "C", "D", "E", "F", "G", "H", "I", "J", "K", "L", "M",
     "N", "O", "P", "Q", "R", "S", "T", "U", "V", "W", "X", "Y", "Z"}

\* characters NOT matched by INVALID_CHARS_PATTERN  [^0-9a-zA-Z_]
ValidChar(c) == c \in Digits \cup Letters \cup {"_"}

\* characters NOT matched by INVALID_LEADING_CHARS_PATTERN  ^[^a-zA-Z_]+
ValidLeadingChar(c) == c \in Letters \cup {"_"}

RECURSIVE StripLeading(_)
StripLeading(s) ==
    IF s = <<>> \/ ValidLeadingChar(Head(s)) THEN s ELSE StripLeading(Tail(s))

name_to_variable_name(name) == StripLeading(SelectSeq(name, ValidChar))

\* keyword.iskeyword, on the reserved words the model's names can produce
Keywords ==
    { <<"c", "l", "a", "s", "s">>, <<"i", "f">>, <<"N", "o", "n", "e">> }

\* inspect.Parameter(name=..., kind=POSITIONAL_OR_KEYWORD, default=Depends(..))
Parameter(name) ==
    IF name = <<>> THEN Raise("IndexError")            \* name[0] on ""
    ELSE IF name \in Keywords THEN Raise("ValueError") \* not a valid parameter name
    ELSE Return(name)

\* the list comprehension of current_user: the first failing Parameter(...)
\* ends it with that exception
RECURSIVE Parameters(_)
Parameters(bs) ==
    IF bs = <<>> THEN Return(<<>>)
    ELSE LET p == Parameter(name_to_variable_name(Head(bs).name))
         IN  IF p.kind = "raise" THEN p
             ELSE LET rest == Parameters(Tail(bs))
                  IN  IF rest.kind = "raise" THEN rest
                      ELSE Return(<<p.value>> \o rest.value)

\* inspect.Signature(parameters): ValueError on a duplicate parameter name
Signature(parameters) ==
    IF \E i, j \in 1..Len(parameters) : i # j /\ parameters[i] = parameters[j]
    THEN Raise("ValueError")
    ELSE Return(parameters)

\* Authenticator.current_user: the dependency callable, or the exception raised
current_user(bs, optional, active, verified, superuser) ==
    LET ps  == Parameters(bs)
        sig == IF ps.kind = "raise" THEN ps ELSE Signature(ps.value)
    IN  IF sig.kind = "raise"
        THEN IF sig.exc = "ValueError" THEN Raise("DuplicateBackendNamesError")
             ELSE sig
        ELSE Return([t |-> "dependency", signature |-> sig.value,
                     optional |-> optional, active |-> active,
                     verified |-> verified, superuser |-> superuser])

----------------------------------------------------------------------------
(* Users and the user directory *)

UserIds == {1, 2}        \* identifiers the directory holds a user for
MissingId == Cardinality(UserIds) + 1   \* a well-formed identifier of no user

Flags == [is_active : BOOLEAN, is_verified : BOOLEAN, is_superuser : BOOLEAN]

UserRecord(id, f) ==
    [t |-> "user", id |-> id, is_active |-> f.is_active,
     is_verified |-> f.is_verified, is_superuser |-> f.is_superuser]

\* every flag set, or every flag cleared
UniformFlags == {f \in Flags : f.is_active = f.is_verified /\ f.is_verified = f.is_superuser}

\* the contents a directory can have: one user per identifier of UserIds; the
\* first user has any flags, each other user has all flags set or all cleared
Directories ==
    {[i \in UserIds |-> UserRecord(i, f[i])] :
        f \in {g \in [UserIds -> Flags] : \A i \in UserIds \ {1} : g[i] \in UniformFlags}}

\* how one call of user_db.get ends: it answers, or it fails with an error
\* that is a ValueError (json.JSONDecodeError, UnicodeDecodeError, ...) or not
DbModes == {"ok", "ValueError", "OSError"}

\* await user_db.get(id)
get(db, id, mode) ==
    IF mode # "ok" THEN Raise(mode)
    ELSE IF id \in DOMAIN db THEN Return(db[id])
    ELSE Return(None)

\* str(user.id): the canonical text of a UUID
UuidStr(id) == [t |-> "str", uuid |-> id]

\* UUID4(user_id) is uuid.UUID(hex=user_id): text of a UUID parses to it, any
\* other str is a ValueError, a value that is no str has no .replace
UUID4(x) ==
    IF x.t # "str" THEN Raise("AttributeError")
    ELSE IF "uuid" \in DOMAIN x THEN Return(x.uuid)
    ELSE Raise("ValueError")

----------------------------------------------------------------------------
(* Token codec (fastapi_users.jwt) *)

\* a signed token: the claims, the key that signed them, the expiry claim
Jwt(data, secret, exp) == [t |-> "jwt", data |-> data, secret |-> secret, exp |-> exp]

\* generate_jwt(data, secret, lifetime_seconds) read at clock value clock
generate_jwt(data, secret, lifetime_seconds, clock) ==
    Jwt(data, secret,
        IF lifetime_seconds = None THEN None ELSE PyInt(clock + lifetime_seconds.v))

\* decode_jwt(encoded_jwt, secret, audience) read at clock value clock: the
\* claims, or a jwt.PyJWTError
decode_jwt(encoded_jwt, secret, audience, clock) ==
    IF encoded_jwt.t # "jwt" THEN Raise("PyJWTError")                \* malformed
    ELSE IF encoded_jwt.secret # secret THEN Raise("PyJWTError")     \* signature
    ELSE IF encoded_jwt.exp # None /\ encoded_jwt.exp.v <= clock
         THEN Raise("PyJWTError")                                    \* expired
    ELSE IF encoded_jwt.data.aud \cap audience = {} THEN Raise("PyJWTError")
    ELSE Return(encoded_jwt.data)

----------------------------------------------------------------------------
(* Cookie backend *)

\* CookieAuthentication(secret, lifetime_seconds, ..., name, token_audience)
CookieAuthentication(secret, lifetime_seconds, name, token_audience) ==
    [secret |-> secret, lifetime_seconds |-> lifetime_seconds,
     cookie_name |-> "fastapiusersauth", cookie_path |-> "/",
     cookie_domain |-> None, cookie_secure |-> TRUE, cookie_httponly |-> TRUE,
     cookie_samesite |-> "lax", name |-> name,
     token_audience |-> token_audience, logout |-> TRUE]

\* _generate_token issuing the token for the password-reset audience
generate_tokenResetAudience(self, u, clock) ==
    generate_jwt([user_id |-> UuidStr(u.id), aud |-> {"fastapi-users:reset"}],
                 self.secret, self.lifetime_seconds, clock)

\* CookieAuthentication._generate_token(user), the clock reading clock
generate_token(self, u, clock) ==
    generate_jwt([user_id |-> UuidStr(u.id), aud |-> self.token_audience],
                 self.secret, self.lifetime_seconds, clock)

\* the first try block of __call__: the user_id to parse, or the early return
CookieUserId(self, credentials, clock) ==
    IF credentials = None THEN Raise("return None")
    ELSE LET data == decode_jwt(credentials, self.secret, self.token_audience, clock)
         IN  IF data.kind = "raise" THEN Raise("return None")   \* except PyJWTError
             ELSE IF data.value.user_id = None THEN Raise("return None")
             ELSE Return(data.value.user_id)

\* the user_db.get calls __call__ makes, each with how it ended
CookieGets(self, credentials, clock, db, mode) ==
    LET user_id == CookieUserId(self, credentials, clock)
    IN  IF user_id.kind = "return" /\ UUID4(user_id.value).kind = "return"
        THEN << get(db, UUID4(user_id.value).value, mode) >>
        ELSE << >>

\* CookieAuthentication.__call__(credentials, user_db); mode is how the
\* directory lookup ends if the call makes one
CookieCall(self, credentials, clock, db, mode) ==
    LET user_id == CookieUserId(self, credentials, clock)
    IN  IF user_id.kind = "raise" THEN Return(None)
        ELSE LET user_uiid == UUID4(user_id.value)
             IN  IF user_uiid.kind = "raise"
                 THEN IF user_uiid.exc = "ValueError" THEN Return(None)
                      ELSE user_uiid
                 ELSE LET found == get(db, user_uiid.value, mode)
                      IN  IF found.kind = "raise" /\ found.exc = "ValueError"
                          THEN Return(None)             \* except ValueError
                          ELSE found

\* response.set_cookie(key, value, max_age, path, domain, secure, httponly,
\* samesite): one more Set-Cookie header on the response
set_cookie(response, key, value, max_age, path, domain, secure, httponly, samesite) ==
    Append(response,
           [op |-> "set_cookie", key |-> key, value |-> value, max_age |-> max_age,
            path |-> path, domain |-> domain, secure |-> secure,
            httponly |-> httponly, samesite |-> samesite])

\* response.delete_cookie(key, path, domain)
delete_cookie(response, key, path, domain) ==
    Append(response, [op |-> "delete_cookie", key |-> key, path |-> path,
                      domain |-> domain])

\* get_login_response without max_age
get_login_responseNoMaxAge(self, u, response, clock) ==
    [user |-> u,
     response |-> set_cookie(response, self.cookie_name,
                             generate_token(self, u, clock), None,
                             self.cookie_path, self.cookie_domain,
                             self.cookie_secure, self.cookie_httponly,
                             self.cookie_samesite),
     result |-> None]

\* get_login_response(user, response), the clock reading clock: the two
\* objects passed in as the call leaves them, and what the call returns
get_login_response(self, u, response, clock) ==
    [user |-> u,
     response |-> set_cookie(response, self.cookie_name,
                             generate_token(self, u, clock),
                             self.lifetime_seconds,
                             self.cookie_path, self.cookie_domain,
                             self.cookie_secure, self.cookie_httponly,
                             self.cookie_samesite),
     result |-> None]

\* get_logout_response that also deactivates the user
get_logout_responseDeactivates(self, u, response) ==
    [user |-> [u EXCEPT !.is_active = FALSE],
     response |-> delete_cookie(response, self.cookie_name, self.cookie_path,
                                self.cookie_domain),
     result |-> None]

\* get_logout_response that clears the cookie and forgets the user's flags
get_logout_responseResetsUser(self, u, response) ==
    [user |-> [u EXCEPT !.is_verified = FALSE, !.is_superuser = FALSE],
     response |-> delete_cookie(response, self.cookie_name, self.cookie_path,
                                self.cookie_domain),
     result |-> None]

\* get_logout_response(user, response): the two objects passed in as the
\* call leaves them, and what the call returns
get_logout_response(self, u, response) ==
    [user |-> u,
     response |-> delete_cookie(response, self.cookie_name, self.cookie_path,
                                self.cookie_domain),
     result |-> None]

----------------------------------------------------------------------------
(* Authenticator._authenticate, one step per executed statement group *)

\* token: str = kwargs[name_to_variable_name(backend.name)]
TokenOf(kw, backend) == kw[name_to_variable_name(backend.name)]

\* the loop without its "break"
BreaksNever(found) == FALSE

\* "if user: break" of the loop: whether the loop ends after this backend
Breaks(found) == Truthy(found)

\* lines 118-127 without line 122: an inactive user keeps the 403
CheckedInactiveForbidden(u, active, verified, superuser) ==
    IF ~Truthy(u) THEN [status_code |-> HTTP_401_UNAUTHORIZED, user |-> u]
    ELSE IF (active /\ ~u.is_active) \/ (verified /\ ~u.is_verified)
              \/ (superuser /\ ~u.is_superuser)
         THEN [status_code |-> HTTP_403_FORBIDDEN, user |-> None]
    ELSE [status_code |-> HTTP_403_FORBIDDEN, user |-> u]

\* lines 118-127 with the verified branch setting 401 as the active branch does
CheckedUnverifiedUnauthorized(u, active, verified, superuser) ==
    IF ~Truthy(u) THEN [status_code |-> HTTP_401_UNAUTHORIZED, user |-> u]
    ELSE IF (active /\ ~u.is_active) \/ (verified /\ ~u.is_verified)
         THEN [status_code |-> HTTP_401_UNAUTHORIZED, user |-> None]
    ELSE IF superuser /\ ~u.is_superuser
         THEN [status_code |-> HTTP_403_FORBIDDEN, user |-> None]
    ELSE [status_code |-> HTTP_403_FORBIDDEN, user |-> u]

\* lines 118-127 without the superuser branch
CheckedNoSuperuser(u, active, verified, superuser) ==
    IF ~Truthy(u) THEN [status_code |-> HTTP_401_UNAUTHORIZED, user |-> u]
    ELSE IF active /\ ~u.is_active
         THEN [status_code |-> HTTP_401_UNAUTHORIZED, user |-> None]
    ELSE IF verified /\ ~u.is_verified
         THEN [status_code |-> HTTP_403_FORBIDDEN, user |-> None]
    ELSE [status_code |-> HTTP_403_FORBIDDEN, user |-> u]

\* lines 118-127 with line 118 starting from 403
CheckedNoUserForbidden(u, active, verified, superuser) ==
    IF ~Truthy(u) THEN [status_code |-> HTTP_403_FORBIDDEN, user |-> u]
    ELSE IF active /\ ~u.is_active
         THEN [status_code |-> HTTP_401_UNAUTHORIZED, user |-> None]
    ELSE IF verified /\ ~u.is_verified
         THEN [status_code |-> HTTP_403_FORBIDDEN, user |-> None]
    ELSE IF superuser /\ ~u.is_superuser
         THEN [status_code |-> HTTP_403_FORBIDDEN, user |-> None]
    ELSE [status_code |-> HTTP_403_FORBIDDEN, user |-> u]

\* lines 118-127 without the verified branch
CheckedNoVerified(u, active, verified, superuser) ==
    IF ~Truthy(u) THEN [status_code |-> HTTP_401_UNAUTHORIZED, user |-> u]
    ELSE IF active /\ ~u.is_active
         THEN [status_code |-> HTTP_401_UNAUTHORIZED, user |-> None]
    ELSE IF superuser /\ ~u.is_superuser
         THEN [status_code |-> HTTP_403_FORBIDDEN, user |-> None]
    ELSE [status_code |-> HTTP_403_FORBIDDEN, user |-> u]

\* lines 118-127 with the verified and superuser branches before the active one
CheckedActiveLast(u, active, verified, superuser) ==
    IF ~Truthy(u) THEN [status_code |-> HTTP_401_UNAUTHORIZED, user |-> u]
    ELSE IF verified /\ ~u.is_verified
         THEN [status_code |-> HTTP_403_FORBIDDEN, user |-> None]
    ELSE IF superuser /\ ~u.is_superuser
         THEN [status_code |-> HTTP_403_FORBIDDEN, user |-> None]
    ELSE IF active /\ ~u.is_active
         THEN [status_code |-> HTTP_401_UNAUTHORIZED, user |-> None]
    ELSE [status_code |-> HTTP_403_FORBIDDEN, user |-> u]

\* lines 118-127: the status code and the user left after the checks
Checked(u, active, verified, superuser) ==
    IF ~Truthy(u) THEN [status_code |-> HTTP_401_UNAUTHORIZED, user |-> u]
    ELSE IF active /\ ~u.is_active
         THEN [status_code |-> HTTP_401_UNAUTHORIZED, user |-> None]
    ELSE IF verified /\ ~u.is_verified
         THEN [status_code |-> HTTP_403_FORBIDDEN, user |-> None]
    ELSE IF superuser /\ ~u.is_superuser
         THEN [status_code |-> HTTP_403_FORBIDDEN, user |-> None]
    ELSE [status_code |-> HTTP_403_FORBIDDEN, user |-> u]

\* lines 129-131 with "and not optional" left out
DecisionIgnoresOptional(c, optional) ==
    IF ~Truthy(c.user)
    THEN HTTPException(c.status_code)
    ELSE Return(c.user)

\* lines 129-131: raise HTTPException(status_code) or return user
Decision(c, optional) ==
    IF ~Truthy(c.user) /\ ~optional
    THEN HTTPException(c.status_code)
    ELSE Return(c.user)

----------------------------------------------------------------------------
(* Configurations and inputs *)

DefaultAudience == {"fastapi-users:auth"}

Secret(i) == <<"SECRET", i>>

\* the i-th backend is named "cookie-<i>"; odd backends issue tokens that
\* expire and accept a second audience
Backend(i) ==
    CookieAuthentication(
        Secret(i),
        IF i % 2 = 1 THEN PyInt(1) ELSE None,
        <<"c", "o", "o", "k", "i", "e", "-">>
            \o <<(<<"1", "2", "3", "4", "5", "6", "7", "8", "9">>)[i]>>,
        IF i % 2 = 1 THEN DefaultAudience \cup {"api"} ELSE DefaultAudience)

\* the backends of the application, in priority order
ConfiguredBackends == [i \in 1..NumBackends |-> Backend(i)]

Secrets == {Secret(i) : i \in 1..NumBackends}
Audiences == {DefaultAudience, {"fastapi-users:reset"}}
Times == 0..MaxTime

\* values a token's user_id claim can have: absent, a number, text that is no
\* UUID, the text of a UUID
ClaimValues == {None, PyInt(123), Str("not-a-uuid")}
                 \cup {UuidStr(i) : i \in UserIds \cup {MissingId}}

Claims(user_id, aud) == [user_id |-> user_id, aud |-> aud]

\* every credential a cookie can carry
Credentials ==
    {None, EmptyStr, Str("garbage")}
      \cup {Jwt(Claims(c, a), s, e) :
              c \in ClaimValues, a \in Audiences, s \in Secrets,
              e \in {None} \cup {PyInt(n) : n \in Times}}

\* the user whose token the i-th backend's cookie carries
UserOf(i) == ((i - 1) % Cardinality(UserIds)) + 1

\* the credentials the cookie of the i-th backend carries in a request: none,
\* the empty string, the token that backend issues at time 0 for a user of
\* the directory, the token of another backend; for the first backend also
\* its token for a user since deleted, for the second also a token signed
\* with its secret whose user_id is a number
SlotCredentials(i) ==
    {None, EmptyStr,
     generate_token(Backend(i), [id |-> UserOf(i)], 0),
     generate_token(Backend((i % NumBackends) + 1),
                    [id |-> UserOf((i % NumBackends) + 1)], 0)}
      \cup (IF i = 1 THEN {generate_token(Backend(1), [id |-> MissingId], 0)} ELSE {})
      \cup (IF i = 2 THEN {Jwt(Claims(PyInt(123), DefaultAudience), Secret(2), None)}
            ELSE {})

RequestCredentials == UNION {SlotCredentials(i) : i \in 1..NumBackends}

ParameterNames(bs) == {name_to_variable_name(bs[i].name) : i \in 1..Len(bs)}

\* the keyword arguments FastAPI calls the dependency with: one credential per
\* parameter of its signature
RequestKwargs(bs) ==
    {kw \in [ParameterNames(bs) -> RequestCredentials] :
        \A i \in 1..Len(bs) : TokenOf(kw, bs[i]) \in SlotCredentials(i)}

\* a fresh Response, no login made, no request in flight
InitSession ==
    /\ sink = <<>>
    /\ session = NotCalled
    /\ lanes = <<>>

InitRequest ==
    /\ pc = "idle"
    /\ kwargs = <<>>
    /\ idx = 0
    /\ user = None
    /\ outcome = NotCalled
    /\ calls = [i \in 1..Len(backends) |-> 0]
    /\ results = [i \in 1..Len(backends) |-> NotCalled]
    /\ gets = [i \in 1..Len(backends) |-> <<>>]

Init ==
    /\ backends = ConfiguredBackends
    /\ user_db \in Directories
    /\ now = 0
    /\ dependency = NotCalled
    /\ direct = NotCalled
    /\ InitRequest
    /\ InitSession

\* authenticator.current_user(optional, active, verified, superuser)
CurrentUser(optional, active, verified, superuser) ==
    /\ pc = "idle"
    /\ dependency' = current_user(backends, optional, active, verified, superuser)
    /\ UNCHANGED <<backends, user_db, now, pc, kwargs, idx, user, outcome,
                   calls, results, gets, direct>>
    /\ UNCHANGED <<sink, session, lanes>>

\* a request reaches the dependency: lines 89-97 and line 110
Request ==
    /\ pc = "idle"
    /\ dependency.kind = "return"
    /\ pc' = "loop"
    /\ \E kw \in RequestKwargs(backends) : kwargs' = kw
    /\ idx' = 1
    /\ user' = None
    /\ outcome' = NotCalled
    /\ calls' = [i \in 1..Len(backends) |-> 0]
    /\ results' = [i \in 1..Len(backends) |-> NotCalled]
    /\ gets' = [i \in 1..Len(backends) |-> <<>>]
    /\ UNCHANGED <<backends, user_db, now, dependency, direct>>
    /\ UNCHANGED <<sink, session, lanes>>

\* one iteration of "for backend in self.backends" (lines 111-116)
LoopStep(mode) ==
    /\ pc = "loop"
    /\ LET backend == backends[idx]
           token   == TokenOf(kwargs, backend)
           called  == CookieCall(backend, token, now, user_db, mode)
           last    == idx = Len(backends)
       IN  IF Truthy(token)
           THEN /\ calls' = [calls EXCEPT ![idx] = @ + 1]
                /\ results' = [results EXCEPT ![idx] = called]
                /\ gets' = [gets EXCEPT ![idx] =
                              @ \o CookieGets(backend, token, now, user_db, mode)]
                /\ IF called.kind = "raise"
                   THEN /\ outcome' = called
                        /\ pc' = "done"
                        /\ UNCHANGED <<user, idx>>
                   ELSE /\ user' = called.value
                        /\ outcome' = outcome
                        /\ IF Breaks(called.value) \/ last
                           THEN pc' = "check" /\ idx' = idx
                           ELSE pc' = "loop" /\ idx' = idx + 1
           ELSE /\ mode = "ok"
                /\ UNCHANGED <<calls, results, gets, user, outcome>>
                /\ IF last THEN pc' = "check" /\ idx' = idx
                   ELSE pc' = "loop" /\ idx' = idx + 1
    /\ UNCHANGED <<backends, user_db, now, dependency, kwargs, direct>>
    /\ UNCHANGED <<sink, session, lanes>>

\* lines 118-131: the checks on the user, then raise or return
Decide ==
    /\ pc = "check"
    /\ LET dep == dependency.value
           c   == Checked(user, dep.active, dep.verified, dep.superuser)
       IN  /\ user' = c.user
           /\ outcome' = Decision(c, dep.optional)
    /\ pc' = "done"
    /\ UNCHANGED <<backends, user_db, now, dependency, kwargs, idx, calls,
                   results, gets, direct>>
    /\ UNCHANGED <<sink, session, lanes>>

\* the request is over; the next one starts from scratch
Complete ==
    /\ pc = "done"
    /\ pc' = "idle"
    /\ kwargs' = <<>>
    /\ idx' = 0
    /\ user' = None
    /\ outcome' = NotCalled
    /\ calls' = [i \in 1..Len(backends) |-> 0]
    /\ results' = [i \in 1..Len(backends) |-> NotCalled]
    /\ gets' = [i \in 1..Len(backends) |-> <<>>]
    /\ UNCHANGED <<backends, user_db, now, dependency, direct>>
    /\ UNCHANGED <<sink, session, lanes>>

Next ==
    \/ \E o, a, v, s \in BOOLEAN : CurrentUser(o, a, v, s)
    \/ Request
    \/ \E mode \in DbModes : LoopStep(mode)
    \/ Decide
    \/ Complete

Spec == Init /\ [][Next]_vars

----------------------------------------------------------------------------
(* The Authenticator over every list of backend names *)

BackendNames ==
    { <<"c", "o", "o", "k", "i", "e">>,
      <<"j", "w", "t">>,
      <<"M", "y", " ", "B", "a", "c", "k", "e", "n", "d", "!">>,
      <<"M", "y", "-", "B", "a", "c", "k", "e", "n", "d", " ">>,
      <<"1", "2", "3">>,
      <<"4", " ", "5">>,
      <<"c", "l", "a", "s", "s">>,
      <<"c", "-", "l", "a", "s", "s">> }

\* the first backends, as many as there are names, renamed
Renamed(names) ==
    [i \in 1..Len(names) |-> [Backend(i) EXCEPT !.name = names[i]]]

PlainUser(i) ==
    UserRecord(i, [is_active |-> TRUE, is_verified |-> TRUE, is_superuser |-> FALSE])

InitNames ==
    /\ backends \in {Renamed(names) :
                       names \in {<<n>> : n \in BackendNames}
                                   \cup (BackendNames \X BackendNames)}
    /\ user_db = [i \in UserIds |-> PlainUser(i)]
    /\ now = 0
    /\ dependency = NotCalled
    /\ direct = NotCalled
    /\ InitRequest
    /\ InitSession

SpecNames == InitNames /\ [][Next]_vars

----------------------------------------------------------------------------
(* The Cookie backend called on its own, on every credential *)

\* await backend(credentials, user_db), outside the Authenticator
DirectCall(i, credentials, mode) ==
    /\ direct = NotCalled
    /\ direct' = [backend |-> i, credentials |-> credentials, clock |-> now,
                  gets |-> CookieGets(backends[i], credentials, now, user_db, mode),
                  result |-> CookieCall(backends[i], credentials, now, user_db, mode)]
    /\ UNCHANGED <<backends, user_db, now, dependency, pc, kwargs, idx, user,
                   outcome, calls, results, gets>>
    /\ UNCHANGED <<sink, session, lanes>>

\* the caller has consumed the result of the call
DirectDone ==
    /\ direct # NotCalled
    /\ direct' = NotCalled
    /\ UNCHANGED <<backends, user_db, now, dependency, pc, kwargs, idx, user,
                   outcome, calls, results, gets>>
    /\ UNCHANGED <<sink, session, lanes>>

\* the clock advances
Tick ==
    /\ now < MaxTime
    /\ now' = now + 1
    /\ UNCHANGED <<backends, user_db, dependency, pc, kwargs, idx, user,
                   outcome, calls, results, gets, direct>>
    /\ UNCHANGED <<sink, session, lanes>>

NextCookie ==
    \/ \E i \in 1..Len(backends), c \in Credentials, mode \in DbModes :
         DirectCall(i, c, mode)
    \/ DirectDone
    \/ Tick

SpecCookie == Init /\ [][NextCookie]_vars

----------------------------------------------------------------------------
(* Login, logout and resolution with an Authenticator of one Cookie backend *)

InitOne ==
    /\ backends \in {<<Backend(i)>> : i \in 1..NumBackends}
    /\ user_db \in Directories
    /\ now = 0
    /\ dependency = NotCalled
    /\ direct = NotCalled
    /\ InitRequest
    /\ InitSession

\* a login route: await backend.get_login_response(user, response) with a
\* user of the directory and a fresh Response
Login(id) ==
    /\ pc = "idle"
    /\ direct = NotCalled
    /\ LET r == get_login_response(backends[1], user_db[id], <<>>, now)
       IN  /\ sink' = r.response
           /\ user_db' = [user_db EXCEPT ![id] = r.user]
           /\ session' = [user |-> user_db[id],
                          token |-> r.response[Len(r.response)].value,
                          issued |-> now, result |-> r.result, logout |-> FALSE]
    /\ UNCHANGED <<backends, now, dependency, pc, kwargs, idx, user, outcome,
                   calls, results, gets, direct, lanes>>

\* a logout route: await backend.get_logout_response(user, response) with the
\* user who logged in and a fresh Response
Logout ==
    /\ pc = "idle"
    /\ direct = NotCalled
    /\ session # NotCalled
    /\ ~session.logout
    /\ LET id == session.user.id
           r  == get_logout_response(backends[1], user_db[id], <<>>)
       IN  /\ sink' = r.response
           /\ user_db' = [user_db EXCEPT ![id] = r.user]
           /\ session' = [session EXCEPT !.logout = TRUE, !.result = r.result]
    /\ UNCHANGED <<backends, now, dependency, pc, kwargs, idx, user, outcome,
                   calls, results, gets, direct, lanes>>

\* a request reaches the dependency (lines 89-97 and line 110) carrying the
\* cookie the login wrote, or no cookie
SessionRequest(carries) ==
    /\ pc = "idle"
    /\ direct = NotCalled
    /\ dependency.kind = "return"
    /\ session # NotCalled
    /\ pc' = "loop"
    /\ kwargs' = [n \in ParameterNames(backends) |->
                    IF carries THEN session.token ELSE None]
    /\ idx' = 1
    /\ user' = None
    /\ outcome' = NotCalled
    /\ calls' = [i \in 1..Len(backends) |-> 0]
    /\ results' = [i \in 1..Len(backends) |-> NotCalled]
    /\ gets' = [i \in 1..Len(backends) |-> <<>>]
    /\ UNCHANGED <<backends, user_db, now, dependency, direct, sink, session, lanes>>

\* the cookie the login wrote, presented to the backend itself
SessionCall(mode) ==
    /\ pc = "idle"
    /\ session # NotCalled
    /\ DirectCall(1, session.token, mode)

NextSession ==
    \/ \E o, a \in BOOLEAN : CurrentUser(o, a, FALSE, FALSE)
    \/ \E id \in UserIds : Login(id)
    \/ Logout
    \/ \E carries \in BOOLEAN : SessionRequest(carries)
    \/ \E mode \in DbModes : LoopStep(mode)
    \/ Decide
    \/ Complete
    \/ \E mode \in DbModes : SessionCall(mode)
    \/ DirectDone
    \/ Tick

SpecSession == InitOne /\ [][NextSession]_vars

----------------------------------------------------------------------------
(* Several requests resolved at once through one Authenticator: each call of
   _authenticate is a coroutine with its own arguments and locals, and the
   event loop may switch between them at every await *)

\* the frame of a call of _authenticate that has not started
IdleFrame ==
    [pc |-> "idle", kwargs |-> <<>>, idx |-> 0, user |-> None,
     outcome |-> NotCalled, modes |-> [i \in 1..Len(backends) |-> "ok"]]

\* the credentials of these requests: no cookie, or the cookie of one backend
\* with the token that backend issues for a user of the directory
LaneKwargs ==
    {[n \in ParameterNames(backends) |-> None]}
      \cup {[n \in ParameterNames(backends) |->
                IF n = name_to_variable_name(backends[i].name)
                THEN generate_token(backends[i], [id |-> UserOf(i)], 0)
                ELSE None] : i \in 1..Len(backends)}

\* the first user is active and verified, every other user has no flag set
LaneDirectories ==
    {d \in Directories :
        /\ d[1] = PlainUser(1)
        /\ \A i \in UserIds \ {1} : ~d[i].is_active /\ ~d[i].is_verified
                                        /\ ~d[i].is_superuser}

InitLanes ==
    /\ backends = ConfiguredBackends
    /\ user_db \in LaneDirectories
    /\ now = 0
    /\ dependency \in {current_user(ConfiguredBackends, o, TRUE, TRUE, FALSE) :
                          o \in BOOLEAN}
    /\ direct = NotCalled
    /\ InitRequest
    /\ sink = <<>>
    /\ session = NotCalled
    /\ lanes = [k \in 1..NumRequests |-> IdleFrame]

\* "user" read by the k-th call is the local of the (k % NumRequests) + 1-th
UserOfNextFrame(frames, k) == frames[(k % Len(frames)) + 1].user

\* "user" read by the k-th call is the local variable of its own frame
LocalUser(frames, k) == frames[k].user

\* request k reaches the dependency: lines 89-97 and line 110
LaneRequest(k, kw) ==
    /\ lanes[k].pc = "idle"
    /\ dependency.kind = "return"
    /\ lanes' = [lanes EXCEPT ![k] =
                   [IdleFrame EXCEPT !.pc = "loop", !.kwargs = kw, !.idx = 1]]
    /\ UNCHANGED <<backends, user_db, now, dependency, pc, kwargs, idx, user,
                   outcome, calls, results, gets, direct, sink, session>>

\* one iteration of "for backend in self.backends" (lines 111-116) of request k
LaneLoopStep(k, mode) ==
    /\ lanes[k].pc = "loop"
    /\ LET f       == lanes[k]
           backend == backends[f.idx]
           token   == TokenOf(f.kwargs, backend)
           called  == CookieCall(backend, token, now, user_db, mode)
           last    == f.idx = Len(backends)
       IN  IF Truthy(token)
           THEN lanes' = [lanes EXCEPT ![k] =
                   IF called.kind = "raise"
                   THEN [f EXCEPT !.modes[f.idx] = mode, !.outcome = called,
                                  !.pc = "done"]
                   ELSE IF Breaks(called.value) \/ last
                   THEN [f EXCEPT !.modes[f.idx] = mode, !.user = called.value,
                                  !.pc = "check"]
                   ELSE [f EXCEPT !.modes[f.idx] = mode, !.user = called.value,
                                  !.idx = @ + 1]]
           ELSE /\ mode = "ok"
                /\ lanes' = [lanes EXCEPT ![k] =
                               IF last THEN [f EXCEPT !.pc = "check"]
                               ELSE [f EXCEPT !.idx = @ + 1]]
    /\ UNCHANGED <<backends, user_db, now, dependency, pc, kwargs, idx, user,
                   outcome, calls, results, gets, direct, sink, session>>

\* lines 118-131 of request k: the checks on the user, then raise or return
LaneDecide(k) ==
    /\ lanes[k].pc = "check"
    /\ LET dep == dependency.value
           c   == Checked(LocalUser(lanes, k), dep.active, dep.verified, dep.superuser)
       IN  lanes' = [lanes EXCEPT ![k] =
                       [@ EXCEPT !.user = c.user,
                                 !.outcome = Decision(c, dep.optional),
                                 !.pc = "done"]]
    /\ UNCHANGED <<backends, user_db, now, dependency, pc, kwargs, idx, user,
                   outcome, calls, results, gets, direct, sink, session>>

\* request k is over
LaneComplete(k) ==
    /\ lanes[k].pc = "done"
    /\ lanes' = [lanes EXCEPT ![k] = IdleFrame]
    /\ UNCHANGED <<backends, user_db, now, dependency, pc, kwargs, idx, user,
                   outcome, calls, results, gets, direct, sink, session>>

NextLanes ==
    \/ \E k \in 1..NumRequests, kw \in LaneKwargs : LaneRequest(k, kw)
    \/ \E k \in 1..NumRequests, mode \in DbModes : LaneLoopStep(k, mode)
    \/ \E k \in 1..NumRequests : LaneDecide(k)
    \/ \E k \in 1..NumRequests : LaneComplete(k)

SpecLanes == InitLanes /\ [][NextLanes]_vars

----------------------------------------------------------------------------
(* Properties of a resolution *)

\* backend i was invoked and returned a user
Yielded(i) == results[i].kind = "return" /\ Truthy(results[i].value)

\* every backend before i was skipped for lack of a credential or returned None
NoUserBefore(i) == \A j \in 1..(i - 1) : results[j] \in {NotCalled, Return(None)}

\* the backends that resolved the request's user (at most one)
FirstYield == {i \in 1..Len(backends) : Yielded(i) /\ NoUserBefore(i)}

\* no invoked backend returned a user or raised
NoneYielded == \A i \in 1..Len(backends) : results[i] \in {NotCalled, Return(None)}

Unauthorized == HTTPException(401)
Forbidden == HTTPException(403)

Opts == dependency.value

\* u passes every check the dependency requires
Passes(u) ==
    /\ Opts.active => u.is_active
    /\ Opts.verified => u.is_verified
    /\ Opts.superuser => u.is_superuser

\* C1: when backend i resolves a user and no backend before i does, the user
\* the Authenticator checks and returns is backend i's user, and no backend
\* after i is invoked, even when that user fails a required check.
FirstMatchWins ==
    \A i \in FirstYield :
        /\ \A j \in (i + 1)..Len(backends) : calls[j] = 0 /\ results[j] = NotCalled
        /\ pc = "check" => user = results[i].value
        /\ pc = "done" =>
             /\ outcome \in {Return(results[i].value), Return(None),
                             Unauthorized, Forbidden}
             /\ outcome = Return(results[i].value) \/ ~Passes(results[i].value)

\* the first backend yields a user who fails a check, the second backend has a
\* credential of its own and was not invoked
FirstMatchWinsWitness ==
    /\ pc = "done"
    /\ 1 \in FirstYield
    /\ Len(backends) >= 2
    /\ Truthy(TokenOf(kwargs, backends[2]))
    /\ calls[2] = 0
    /\ outcome = Forbidden

\* the user the loop resolved, None when no backend yielded one
YieldedUser ==
    IF FirstYield = {} THEN None ELSE results[CHOOSE i \in FirstYield : TRUE].value

\* the resolution ran to its end with a user yielded by a backend
DoneWithUser == pc = "done" /\ FirstYield # {}

\* C2: a yielded user with active=false, require_active=true and
\* optional=false: the resolution fails with 401, never 403, whatever the
\* other options and flags are.
InactiveIsUnauthorized ==
    (DoneWithUser /\ ~YieldedUser.is_active /\ Opts.active /\ ~Opts.optional)
        => outcome = Unauthorized

\* an inactive, unverified non-superuser meets a dependency requiring all three
InactiveIsUnauthorizedWitness ==
    /\ DoneWithUser
    /\ ~YieldedUser.is_active /\ ~YieldedUser.is_verified /\ ~YieldedUser.is_superuser
    /\ Opts.active /\ Opts.verified /\ Opts.superuser /\ ~Opts.optional
    /\ outcome = Unauthorized

UnverifiedIsUnauthorized ==
    (DoneWithUser /\ ~YieldedUser.is_verified /\ Opts.verified /\ ~Opts.optional)
        => outcome = Unauthorized

\* the request carries the token backend i issues for a user, still unexpired
ValidCookieToken(i) ==
    /\ Truthy(TokenOf(kwargs, backends[i]))
    /\ decode_jwt(TokenOf(kwargs, backends[i]), backends[i].secret,
                  backends[i].token_audience, now).kind = "return"

\* C5: a user who is active, verified and not superuser, resolved from a valid
\* unexpired cookie token, with require_superuser=true and optional=false:
\* the resolution fails with 403, whatever require_active and
\* require_verified are.
NonSuperuserIsForbidden ==
    \A i \in FirstYield :
        (pc = "done" /\ ValidCookieToken(i)
           /\ results[i].value.is_active /\ results[i].value.is_verified
           /\ ~results[i].value.is_superuser
           /\ Opts.superuser /\ ~Opts.optional)
            => outcome = Forbidden

\* the token the first backend issued, with an expiry still ahead, resolves
\* an active verified non-superuser; the dependency requires all three
NonSuperuserIsForbiddenWitness ==
    /\ pc = "done"
    /\ 1 \in FirstYield
    /\ ValidCookieToken(1)
    /\ TokenOf(kwargs, backends[1]).exp # None
    /\ results[1].value.is_active /\ results[1].value.is_verified
    /\ ~results[1].value.is_superuser
    /\ Opts.active /\ Opts.verified /\ Opts.superuser /\ ~Opts.optional
    /\ outcome = Forbidden

\* what a resolution that raises nothing returns: the yielded user when it
\* passes every required check, None in every other case
ExpectedUser ==
    IF FirstYield # {} /\ Passes(YieldedUser) THEN YieldedUser ELSE None

\* C6 as stated: with optional=true the resolution never raises or fails; it
\* returns the user when one was yielded and passes all required checks, and
\* None in every other case.
OptionalNeverFails ==
    (pc = "done" /\ Opts.optional) => outcome = Return(ExpectedUser)

\* some invoked backend raised
BackendRaised == \E i \in 1..Len(backends) : results[i].kind = "raise"

\* C6 as amended: with optional=true the resolution never fails with 401 or
\* 403; when every invoked backend returns, it returns the yielded user if
\* that user passes all required checks and None otherwise; it raises only
\* the error an invoked backend raised.
OptionalNeverFailsExceptBackendError ==
    (pc = "done" /\ Opts.optional) =>
        /\ outcome \notin {Unauthorized, Forbidden}
        /\ ~BackendRaised => outcome = Return(ExpectedUser)
        /\ outcome.kind = "raise" =>
             \E i \in 1..Len(backends) : results[i] = outcome

\* optional=true, every check required, and the yielded user fails one: None
OptionalNeverFailsWitness ==
    /\ DoneWithUser
    /\ Opts.optional /\ Opts.active /\ Opts.verified /\ Opts.superuser
    /\ ~Passes(YieldedUser)
    /\ outcome = Return(None)

\* C7: when no backend yields a user (each credential is missing or empty, or
\* each invoked backend returns None), the resolution fails with 401 when
\* optional=false, whatever the three requirements are, and returns None when
\* optional=true.
NoUserIsUnauthorized ==
    (pc = "done" /\ NoneYielded) =>
        outcome = IF Opts.optional THEN Return(None) ELSE Unauthorized

\* one backend was invoked and returned None, the other had no credential;
\* the dependency requires verified and superuser
NoUserIsUnauthorizedWitness ==
    /\ pc = "done" /\ NoneYielded
    /\ Len(backends) >= 2
    /\ results[1] = Return(None) /\ results[2] = NotCalled
    /\ Opts.verified /\ Opts.superuser /\ ~Opts.optional
    /\ outcome = Unauthorized

\* C9: every failure of user_db.get during a backend's call propagates out of
\* the backend and out of the resolution: it is not turned into "no user" nor
\* into a 401 or 403, and the lookup is not retried.
DirectoryFailurePropagates ==
    \A i \in 1..Len(backends) :
        \A n \in 1..Len(gets[i]) :
            gets[i][n].kind = "raise" =>
                /\ Len(gets[i]) = 1
                /\ results[i] = gets[i][n]
                /\ pc = "done" /\ outcome = gets[i][n]

----------------------------------------------------------------------------
(* Properties of current_user *)

\* two configured backends have names that are equal after normalisation
NamesCollide ==
    \E i, j \in 1..Len(backends) :
        i # j /\ name_to_variable_name(backends[i].name)
                   = name_to_variable_name(backends[j].name)

\* C8: whenever two configured backends have names that are equal after
\* normalisation, current_user fails with DuplicateBackendNamesError; no
\* accessor is produced, so no request is ever resolved.
CollisionIsDuplicateBackendNamesError ==
    NamesCollide =>
        /\ dependency \in {NotCalled, Raise("DuplicateBackendNamesError")}
        /\ pc = "idle" /\ outcome = NotCalled

----------------------------------------------------------------------------
(* Properties of the Cookie backend called on its own *)

\* the claims decode_jwt gives __call__ for the credential of the last call
DirectDecoded ==
    decode_jwt(direct.credentials, backends[direct.backend].secret,
               backends[direct.backend].token_audience, direct.clock)

\* the credential of the last call is bad: absent, rejected by the codec,
\* without a user identifier, or with one that is no UUID
DirectBadCredential ==
    \/ direct.credentials = None
    \/ DirectDecoded.kind = "raise"
    \/ DirectDecoded.value.user_id = None
    \/ ~(\E i \in UserIds \cup {MissingId} : DirectDecoded.value.user_id = UuidStr(i))

\* C10: the Cookie backend's resolve never raises for bad credential
\* material: it returns None when the credential is absent, when decoding
\* fails, when the claims hold no user identifier and when the identifier
\* does not parse; in every remaining case it returns what user_db.get
\* returns.
CookieReturnsNoneOnBadCredential ==
    direct # NotCalled =>
        /\ DirectBadCredential => direct.result = Return(None)
        /\ (~DirectBadCredential /\ direct.gets[1].kind = "return")
              => direct.result = direct.gets[1]

----------------------------------------------------------------------------
(* Further properties of a resolution *)

\* C12: whenever the resolution returns a user, that user is the one yielded
\* by the first backend that yielded a user and it satisfies every required
\* check, with optional=true or false.
ReturnedUserIsSound ==
    (pc = "done" /\ outcome.kind = "return" /\ outcome.value # None) =>
        /\ FirstYield # {}
        /\ outcome.value = YieldedUser
        /\ Passes(outcome.value)

\* the second backend's user is returned under a dependency requiring all
\* three flags, after the first backend was invoked and returned None
ReturnedUserIsSoundWitness ==
    /\ pc = "done"
    /\ Len(backends) >= 2
    /\ results[1] = Return(None)
    /\ 2 \in FirstYield
    /\ Opts.active /\ Opts.verified /\ Opts.superuser
    /\ outcome = Return(results[2].value)

\* the yielded user fails the check on is_active
FailsActive == Opts.active /\ ~YieldedUser.is_active

\* the yielded user fails the check on is_verified or the one on is_superuser
FailsVerifiedOrSuperuser ==
    \/ Opts.verified /\ ~YieldedUser.is_verified
    \/ Opts.superuser /\ ~YieldedUser.is_superuser

Absent(i) == TokenOf(kwargs, backends[i]) \in {None, EmptyStr}

\* C14: backends are considered in list order and a backend is invoked only
\* if its own credential is present and non-empty; a backend whose credential
\* is missing or empty is skipped without being invoked and without a
\* directory lookup, and the loop goes on with the next backend.
BackendsInOrderOnlyWithCredential ==
    pc \in {"loop", "check", "done"} =>
        \A i \in 1..Len(backends) :
            /\ calls[i] <= 1
            /\ Absent(i) => calls[i] = 0 /\ results[i] = NotCalled /\ gets[i] = <<>>
            /\ calls[i] = 1 =>
                 \A j \in 1..(i - 1) :
                     /\ results[j] \in {NotCalled, Return(None)}
                     /\ ~Absent(j) => calls[j] = 1
            /\ (pc \in {"check", "done"} /\ ~Absent(i)
                  /\ \A j \in 1..(i - 1) : results[j] \in {NotCalled, Return(None)})
                 => calls[i] = 1

\* the first backend's credential is the empty string and it was skipped; the
\* second backend was invoked and looked its user up
BackendsInOrderOnlyWithCredentialWitness ==
    /\ pc = "done"
    /\ Len(backends) >= 2
    /\ TokenOf(kwargs, backends[1]) = EmptyStr
    /\ calls[1] = 0 /\ gets[1] = <<>>
    /\ calls[2] = 1 /\ Len(gets[2]) = 1

\* C19: current_user raises DuplicateBackendNamesError only when two
\* configured backends have equal normalised names; over every list whose
\* normalised names are pairwise distinct it returns an accessor.
DistinctNamesGiveAccessor ==
    (~NamesCollide /\ dependency # NotCalled) => dependency.kind = "return"

----------------------------------------------------------------------------
(* Properties of login and logout *)

\* a login was made and no logout followed it
LoggedIn == session # NotCalled /\ ~session.logout

\* a login was made and a logout followed it
LoggedOut == session # NotCalled /\ session.logout

\* C11: get_login_response writes exactly one cookie into the response, with
\* the configured name, path, domain, secure, httponly and samesite; its value
\* is a token generated with the configured secret and lifetime over the
\* claims {user_id of user.id, the configured audience}; max_age is the
\* configured lifetime, with no max_age and no expiry in the token when the
\* lifetime is absent; the call returns None.
LoginWritesOneCookie ==
    LoggedIn =>
        LET self == backends[1]
        IN  /\ Len(sink) = 1
            /\ sink[1].op = "set_cookie"
            /\ sink[1].key = self.cookie_name
            /\ sink[1].path = self.cookie_path
            /\ sink[1].domain = self.cookie_domain
            /\ sink[1].secure = self.cookie_secure
            /\ sink[1].httponly = self.cookie_httponly
            /\ sink[1].samesite = self.cookie_samesite
            /\ sink[1].value =
                 generate_jwt([user_id |-> sink[1].value.data.user_id,
                               aud |-> self.token_audience],
                              self.secret, self.lifetime_seconds, session.issued)
            /\ UUID4(sink[1].value.data.user_id) = Return(session.user.id)
            /\ sink[1].max_age = self.lifetime_seconds
            /\ self.lifetime_seconds = None =>
                 sink[1].max_age = None /\ sink[1].value.exp = None
            /\ session.result = None

\* a login by a backend with a lifetime, at a clock reading after the start
LoginWritesOneCookieWitness ==
    /\ LoggedIn
    /\ backends[1].lifetime_seconds # None
    /\ session.issued > 0
    /\ sink[1].max_age = backends[1].lifetime_seconds
    /\ sink[1].value.exp = PyInt(session.issued + backends[1].lifetime_seconds.v)

\* a step of get_login_response or get_logout_response
SessionStep == session' # session

\* a step of a resolution
ResolveStep == pc' # pc \/ direct' # direct

\* C16: the core never mutates user data: over every sequence of resolutions,
\* logins and logouts the directory and its user records stay as they were
\* and so do the backends; a login or logout writes the response and nothing
\* else, and a resolution does not write the response.
CoreNeverMutatesUserData ==
    [][/\ user_db' = user_db
       /\ backends' = backends
       /\ SessionStep => UNCHANGED <<now, dependency, pc, kwargs, idx, user,
                                     outcome, calls, results, gets, direct>>
       /\ ResolveStep => sink' = sink]_vars

\* after a login and a logout the backend resolved the cookie to the user,
\* whose record in the directory is the one that logged in
CoreNeverMutatesUserDataWitness ==
    /\ LoggedOut
    /\ direct # NotCalled
    /\ direct.result = Return(session.user)
    /\ user_db[session.user.id] = session.user

\* the token has not expired at clock reading clock
Unexpired(token, clock) == token.exp = None \/ clock < token.exp.v

\* the request carries the cookie the login wrote
CarriesToken ==
    /\ session # NotCalled
    /\ kwargs # <<>>
    /\ \A n \in DOMAIN kwargs : kwargs[n] = session.token

\* the request carries no cookie
CarriesNothing == kwargs # <<>> /\ \A n \in DOMAIN kwargs : kwargs[n] = None

\* the dependency requires none of active, verified, superuser
NothingRequired == ~Opts.active /\ ~Opts.verified /\ ~Opts.superuser

\* C17: the token get_login_response writes for a user u of the directory,
\* presented before its expiry to the same backend, makes the backend look
\* u.id up and yield what user_db.get(u.id) returns, which is u; through an
\* Authenticator of that backend alone and with nothing required the request
\* resolves to u.
LoginResolveRoundTrip ==
    /\ (session # NotCalled /\ direct # NotCalled
          /\ direct.credentials = session.token
          /\ Unexpired(session.token, direct.clock)) =>
            /\ Len(direct.gets) = 1
            /\ direct.gets[1].kind = "return" =>
                 /\ direct.gets[1] = Return(session.user)
                 /\ direct.result = Return(session.user)
    /\ (pc = "done" /\ CarriesToken /\ Unexpired(session.token, now)
          /\ NothingRequired) =>
            /\ Len(gets[1]) = 1
            /\ gets[1][1].kind = "return" => outcome = Return(session.user)

\* a token with an expiry, issued after the clock started, resolved to its
\* inactive user through the Authenticator while logged in
LoginResolveRoundTripWitness ==
    /\ pc = "done"
    /\ LoggedIn
    /\ CarriesToken
    /\ NothingRequired
    /\ session.token.exp # None
    /\ session.issued > 0
    /\ ~session.user.is_active
    /\ outcome = Return(session.user)

\* the step is a logout
LogoutStep == session # NotCalled /\ ~session.logout /\ session' # NotCalled
                /\ session'.logout

\* get_logout_response asks the response to delete the cookie of the
\* configured name, path and domain
LogoutClearsCookie ==
    LoggedOut =>
        sink = << [op |-> "delete_cookie", key |-> backends[1].cookie_name,
                   path |-> backends[1].cookie_path,
                   domain |-> backends[1].cookie_domain] >>

\* a token issued before the logout still resolves to its user before expiry
TokenOutlivesLogout ==
    /\ (LoggedOut /\ direct # NotCalled /\ direct.credentials = session.token
          /\ Unexpired(session.token, direct.clock)) =>
            /\ Len(direct.gets) = 1
            /\ direct.gets[1].kind = "return" => direct.result = Return(session.user)
    /\ (LoggedOut /\ pc = "done" /\ CarriesToken /\ Unexpired(session.token, now)
          /\ Passes(session.user)) =>
            /\ Len(gets[1]) = 1
            /\ gets[1][1].kind = "return" => outcome = Return(session.user)

\* a request without the cookie resolves to no user
NoCookieNoUser ==
    (pc = "done" /\ CarriesNothing) =>
        /\ \A i \in 1..Len(backends) : calls[i] = 0
        /\ outcome = IF Opts.optional THEN Return(None) ELSE Unauthorized

\* C18: logout is client-side only: get_logout_response asks the response to
\* clear the cookie of the configured name, path and domain and changes
\* nothing on the server; after login(u) and logout(u) the token issued
\* before the logout still resolves to u when presented before its expiry,
\* and a request that no longer carries the cookie resolves to no user.
LogoutIsClientSideOnly ==
    /\ [](LogoutClearsCookie /\ TokenOutlivesLogout /\ NoCookieNoUser)
    /\ [][LogoutStep => UNCHANGED <<backends, user_db, now, dependency, pc,
                                    kwargs, idx, user, outcome, calls, results,
                                    gets, direct>>]_vars

\* after the logout a request carrying the token resolved to the user
\* although the dependency requires an active user
LogoutIsClientSideOnlyWitness ==
    /\ LoggedOut
    /\ pc = "done"
    /\ CarriesToken
    /\ Opts.active /\ ~Opts.optional
    /\ outcome = Return(session.user)

----------------------------------------------------------------------------
(* Requests resolved at once *)

\* the loop of lines 111-116 run from backend i on with nothing in between:
\* the exception that leaves it, or the value of user after it
RECURSIVE LoopAlone(_, _, _)
LoopAlone(kw, modes, i) ==
    IF i > Len(backends) THEN Return(None)
    ELSE LET token  == TokenOf(kw, backends[i])
             called == CookieCall(backends[i], token, now, user_db, modes[i])
         IN  IF ~Truthy(token) THEN LoopAlone(kw, modes, i + 1)
             ELSE IF called.kind = "raise" THEN called
             ELSE IF Truthy(called.value) THEN called
             ELSE LoopAlone(kw, modes, i + 1)

\* how the request ends when it is the only one resolved, its lookups ending
\* as modes says
ResolvedAlone(kw, modes) ==
    LET found == LoopAlone(kw, modes, 1)
    IN  IF found.kind = "raise" THEN found
        ELSE IF found.value # None /\ Passes(found.value) THEN found
        ELSE IF Opts.optional THEN Return(None)
        ELSE IF found.value = None \/ (Opts.active /\ ~found.value.is_active)
             THEN Unauthorized
        ELSE Forbidden

\* C15: for requests resolved at the same time through one Authenticator,
\* under every interleaving of their backend calls and directory lookups,
\* each request ends as it would when resolved alone against the same
\* directory; the list of backends and their configuration stay as
\* configured.
ConcurrentAsAlone ==
    /\ backends = ConfiguredBackends
    /\ \A k \in DOMAIN lanes :
          lanes[k].pc = "done" =>
              lanes[k].outcome = ResolvedAlone(lanes[k].kwargs, lanes[k].modes)

\* one request has ended with its user while another, whose backend yielded a
\* different user, is about to run its checks
ConcurrentAsAloneWitness ==
    \E j, k \in DOMAIN lanes :
        /\ lanes[j].pc = "done" /\ lanes[j].outcome.kind = "return"
        /\ lanes[j].outcome.value # None
        /\ lanes[k].pc = "check" /\ lanes[k].user # None
        /\ lanes[k].user # lanes[j].outcome.value

====
